---- MODULE Spec2Model ----
(***************************************************************************)
(* Model of newsRAG.py: the linear pipeline                                *)
(*   keys -> query -> search -> extraction loop -> report -> prompt        *)
(*        -> LLM call -> display.                                          *)
(* Text whose whitespace matters (user input, page text, LLM reply) is a   *)
(* sequence of one-character strings; printed lines and the prompt are     *)
(* sequences of string tokens.                                             *)
(***************************************************************************)
EXTENDS Integers, Sequences, FiniteSets, TLC

VARIABLES pc, exit_code, env, serpapi_key, openai_api_key, raw_query, query,
          num_articles, api_response, articles, idx, successful_articles,
          ret, last_page, prompt, llm_result, gpt_response, output,
          search_calls, extract_calls, llm_calls, succ_idx

vars == <<pc, exit_code, env, serpapi_key, openai_api_key, raw_query, query,
          num_articles, api_response, articles, idx, successful_articles,
          ret, last_page, prompt, llm_result, gpt_response, output,
          search_calls, extract_calls, llm_calls, succ_idx>>

(* ---------------------------- bounds ----------------------------------- *)
MaxResults == 6        \* longest result list the search API returns in Spec
MaxNum == 3            \* largest num_articles requested in SpecSearch
MaxTextLen == 3        \* longest page text in SpecExtract
MaxPromptArticles == 5 \* longest article list in SpecPrompt

(* ---------------------------- values ----------------------------------- *)
NoneVal == "<None>"    \* Python None
Running == -1          \* exit_code while the process has not terminated

Whitespace == {" ", "\n"}
Chars == {" ", "\n", "a"}

RECURSIVE LStrip(_)
LStrip(s) == IF s /= <<>> /\ Head(s) \in Whitespace THEN LStrip(Tail(s)) ELSE s

RECURSIVE RStrip(_)
RStrip(s) ==
  IF s /= <<>> /\ s[Len(s)] \in Whitespace
    THEN RStrip(SubSeq(s, 1, Len(s) - 1))
    ELSE s

\* the input used as typed, without .strip()
Strip_m(s) == s

\* str.strip()
Strip(s) == RStrip(LStrip(s))

\* f-string rendering of a value that is a str or None
Fmt(v) == IF v = NoneVal THEN "None" ELSE v

\* dict.get(key) with the default None
Get(d, k) == IF k \in DOMAIN d THEN d[k] ELSE NoneVal

(* ----------------------- the environment's inputs ---------------------- *)
\* records of the search API's news_results list; a record may lack a field
R1 == [title |-> "T1", link |-> "u1", source |-> "S1", published |-> "P1",
       snippet |-> "N1"]
R2 == [title |-> "T2", link |-> "u2", source |-> "S2", published |-> "P2"]
R3 == [link |-> "u3", source |-> "S3", published |-> "P3", snippet |-> "N3",
       position |-> "3"]
Pool == <<R1, R2, R3>>

\* the result list of length k that starts at Pool[s] and cycles through Pool
CyclicList(k, s) == [i \in 1..k |-> Pool[((i + s - 2) % Len(Pool)) + 1]]

\* every list over Pool of length at most n
RECURSIVE ListsUpTo(_)
ListsUpTo(n) ==
  IF n = 0 THEN {<<>>}
  ELSE LET S == ListsUpTo(n - 1)
       IN S \cup {Append(l, r) : l \in {x \in S : Len(x) = n - 1},
                                 r \in {R1, R2, R3}}

NoCall == [kind |-> "none"]
Raised == [kind |-> "raise"]
ResultsDict(l) == [kind |-> "dict", dict |-> [news_results |-> l]]
ErrorDict == [kind |-> "dict", dict |-> [error |-> "no results"]]

\* what search.get_dict() does in a run of the whole program
MainResponses ==
  {Raised, ErrorDict} \cup
  {ResultsDict(CyclicList(k, s)) : k \in 0..MaxResults, s \in 1..2}

\* what search.get_dict() does when the function is examined alone
SearchResponses ==
  {Raised, ErrorDict} \cup {ResultsDict(l) : l \in ListsUpTo(MaxNum + 1)}

PageRaise == [kind |-> "raise", text |-> <<>>]
PageOf(t) == [kind |-> "page", text |-> t]

RECURSIVE TextsUpTo(_)
TextsUpTo(n) ==
  IF n = 0 THEN {<<>>}
  ELSE LET S == TextsUpTo(n - 1)
       IN S \cup {Append(t, c) : t \in {x \in S : Len(x) = n - 1}, c \in Chars}

\* what download()/parse() yield in a run of the whole program
MainPages == {PageRaise, PageOf(<<"\n">>), PageOf(<<" ", "a", "\n">>)}

\* what download()/parse() yield when the extractor is examined alone
ExtractPages == {PageRaise} \cup {PageOf(t) : t \in TextsUpTo(MaxTextLen)}

LLMNoCall == [kind |-> "none", choices |-> <<>>]
LLMRaise == [kind |-> "raise", choices |-> <<>>]
LLMRaiseAttr == [kind |-> "attr", choices |-> <<>>]
LLMResponse(cs) == [kind |-> "ok", choices |-> cs]
Choice(t) == [message |-> [content |-> t]]

LLMOutcomes ==
  {LLMRaise, LLMRaiseAttr, LLMResponse(<<>>),
   LLMResponse(<<Choice(<<" ", "a">>), Choice(<<"a", "a">>)>>),
   LLMResponse(<<Choice(<<" ">>)>>)}

QueryInputs == {<<>>, <<" ">>, <<" ", "\n">>, <<" ", "a", " ">>}
EnvValues == {NoneVal, "", "envkey"}
KeyInputs == {<<>>, <<"k", " ">>}

(* --------------------------- get_api_keys ------------------------------ *)
\* `if not key`: None and the empty string are both falsy
Falsy(v) == v = NoneVal \/ v = ""

\* the key typed at the prompt, stripped, as one token
TypedKey(inp) == IF Strip(inp) = <<>> THEN "" ELSE "typed:" \o Strip(inp)[1]

GetApiKeys ==
  /\ pc = "keys"
  /\ \E i1 \in KeyInputs, i2 \in KeyInputs :
       /\ serpapi_key' = IF Falsy(env.serp) THEN TypedKey(i1) ELSE env.serp
       /\ openai_api_key' =
            IF Falsy(env.openai) THEN TypedKey(i2) ELSE env.openai
  /\ pc' = "query"
  /\ UNCHANGED <<exit_code, env, raw_query, query, num_articles, api_response,
                 articles, idx, successful_articles, ret, last_page, prompt,
                 llm_result,
                 gpt_response, output, search_calls, extract_calls, llm_calls,
                 succ_idx>>

(* --------------------------- get_user_query ---------------------------- *)
GetUserQuery ==
  /\ pc = "query"
  /\ \E inp \in QueryInputs :
       /\ raw_query' = inp
       /\ query' = Strip(inp)
       /\ IF Strip(inp) = <<>>
            THEN /\ output' = Append(output, <<"Search query cannot be empty.">>)
                 /\ exit_code' = 1
                 /\ pc' = "done"
            ELSE /\ output' = output
                 /\ exit_code' = exit_code
                 /\ pc' = "search"
  /\ UNCHANGED <<env, serpapi_key, openai_api_key, num_articles, api_response,
                 articles, idx, successful_articles, ret, last_page, prompt,
                 llm_result,
                 gpt_response, search_calls, extract_calls, llm_calls,
                 succ_idx>>

(* ---------------------- get_google_news_articles ----------------------- *)
\* the publication date read from the field "date"
ArticleInfo_m(article) ==
  [title |-> Get(article, "title"),
   link |-> Get(article, "link"),
   source |-> Get(article, "source"),
   published_date |-> Get(article, "date"),
   snippet |-> Get(article, "snippet")]

\* the dictionary built for one API record
ArticleInfo(article) ==
  [title |-> Get(article, "title"),
   link |-> Get(article, "link"),
   source |-> Get(article, "source"),
   published_date |-> Get(article, "published"),
   snippet |-> Get(article, "snippet")]

\* results.get('news_results', [])
NewsResults(results) ==
  IF "news_results" \in DOMAIN results THEN results["news_results"] ELSE <<>>

\* the list the function returns for a non-empty result list; the request's
\* num parameter is sent to the API and not applied to the response
BuildArticles(news_results, num) ==
  [i \in 1..Len(news_results) |-> ArticleInfo(news_results[i])]

\* the call without the test for an empty result list
SearchOutcome_m(resp, num) ==
  IF resp.kind = "raise"
    THEN [exit |-> TRUE, articles |-> <<>>,
          out |-> <<"An error occurred while fetching articles: ", "<e>">>]
  ELSE [exit |-> FALSE, articles |-> BuildArticles(NewsResults(resp.dict), num),
        out |-> <<>>]

\* the outcome of the call: the returned list, or the exit with its message
SearchOutcome(resp, num) ==
  IF resp.kind = "raise"
    THEN [exit |-> TRUE, articles |-> <<>>,
          out |-> <<"An error occurred while fetching articles: ", "<e>">>]
  ELSE IF NewsResults(resp.dict) = <<>>
    THEN [exit |-> TRUE, articles |-> <<>>,
          out |-> <<"No news articles found for the given query.">>]
  ELSE [exit |-> FALSE, articles |-> BuildArticles(NewsResults(resp.dict), num),
        out |-> <<>>]

GetGoogleNewsArticles(responses) ==
  /\ pc = "search"
  /\ \E resp \in responses :
       LET o == SearchOutcome(resp, num_articles)
           fetching == <<"\nFetching up to 10 news articles...\n">>
       IN /\ api_response' = resp
          /\ search_calls' = search_calls + 1
          /\ articles' = o.articles
          /\ IF o.exit
               THEN /\ output' = output \o <<fetching, o.out>>
                    /\ exit_code' = 1
                    /\ pc' = "done"
               ELSE /\ output' = Append(output, fetching)
                    /\ exit_code' = exit_code
                    /\ pc' = "loop"
  /\ UNCHANGED <<env, serpapi_key, openai_api_key, raw_query, query,
                 num_articles, idx, successful_articles, ret, last_page, prompt,
                 llm_result, gpt_response, extract_calls, llm_calls, succ_idx>>

(* ------------------------- extract_article_text ------------------------ *)
Placeholder == <<"Content could not be retrieved.">>

\* the emptiness test applied to the text before it is trimmed
ExtractArticleText_m(url, page) ==
  IF page.kind = "raise"
    THEN [success |-> FALSE, text |-> Placeholder,
          out |-> <<<<"Failed to extract text from ", Fmt(url), ": ", "<e>">>>>]
  ELSE IF page.text /= <<>>
    THEN [success |-> TRUE, text |-> Strip(page.text), out |-> <<>>]
  ELSE [success |-> FALSE, text |-> Placeholder, out |-> <<>>]

ExtractArticleText(url, page) ==
  IF page.kind = "raise"
    THEN [success |-> FALSE, text |-> Placeholder,
          out |-> <<<<"Failed to extract text from ", Fmt(url), ": ", "<e>">>>>]
  ELSE IF Strip(page.text) /= <<>>
    THEN [success |-> TRUE, text |-> Strip(page.text), out |-> <<>>]
  ELSE [success |-> FALSE, text |-> Placeholder, out |-> <<>>]

(* ------------------------ main: the extraction loop -------------------- *)
SuccessLimit == 5

\* the break test off by one
LoopBreak_m(succ) == Len(succ) > SuccessLimit

\* the break test at the top of each iteration
LoopBreak(succ) == Len(succ) >= SuccessLimit

\* article['full_text'] = full_text
WithFullText(a, t) ==
  [k \in DOMAIN a \cup {"full_text"} |-> IF k = "full_text" THEN t ELSE a[k]]

\* the new article put at the front of the list
AppendSuccess_m(succ, a) == <<a>> \o succ

\* the list after a successful extraction
AppendSuccess(succ, a) == Append(succ, a)

ExtractStep(pages) ==
  /\ pc = "loop"
  /\ idx <= Len(articles)
  /\ ~LoopBreak(successful_articles)
  /\ \E page \in pages :
       LET article == articles[idx]
           r == ExtractArticleText(article.link, page)
           attempting == <<"Attempting to extract content from Article ",
                           ToString(idx), ": ", Fmt(article.link)>>
       IN /\ ret' = [success |-> r.success, text |-> r.text]
          /\ last_page' = page
          /\ extract_calls' = Append(extract_calls, idx)
          /\ IF r.success
               THEN /\ articles' =
                         [articles EXCEPT ![idx] = WithFullText(article, r.text)]
                    /\ successful_articles' =
                         AppendSuccess(successful_articles,
                                       WithFullText(article, r.text))
                    /\ succ_idx' = Append(succ_idx, idx)
                    /\ output' = (Append(output, attempting) \o r.out) \o
                         << <<"Successfully extracted Article ", ToString(idx)>> >>
               ELSE /\ UNCHANGED <<articles, successful_articles, succ_idx>>
                    /\ output' = (Append(output, attempting) \o r.out) \o
                         << <<"Failed to extract Article ", ToString(idx),
                              ", skipping.">> >>
  /\ idx' = idx + 1
  /\ UNCHANGED <<pc, exit_code, env, serpapi_key, openai_api_key, raw_query,
                 query, num_articles, api_response, prompt, llm_result,
                 gpt_response, search_calls, llm_calls>>

\* the loop ends: the list is exhausted or the break is taken
LoopExit ==
  /\ pc = "loop"
  /\ idx > Len(articles) \/ LoopBreak(successful_articles)
  /\ pc' = "report"
  /\ UNCHANGED <<exit_code, env, serpapi_key, openai_api_key, raw_query, query,
                 num_articles, api_response, articles, idx,
                 successful_articles, ret, last_page, prompt, llm_result,
                 gpt_response,
                 output, search_calls, extract_calls, llm_calls, succ_idx>>

(* ------------------- main: the report after the loop ------------------- *)
\* the warning also printed for 5 successes
ReportLine_m(succ) ==
  IF succ = <<>>
    THEN <<"No articles were successfully retrieved. Exiting.">>
  ELSE IF Len(succ) <= 5
    THEN <<"\nOnly ", ToString(Len(succ)),
           " articles were successfully retrieved.\n">>
  ELSE <<"\nSuccessfully retrieved 5 articles.\n">>

ReportLine(succ) ==
  IF succ = <<>>
    THEN <<"No articles were successfully retrieved. Exiting.">>
  ELSE IF Len(succ) < 5
    THEN <<"\nOnly ", ToString(Len(succ)),
           " articles were successfully retrieved.\n">>
  ELSE <<"\nSuccessfully retrieved 5 articles.\n">>

\* the report that goes on to the prompt with no article
Report_m ==
  /\ pc = "report"
  /\ output' = Append(output, ReportLine(successful_articles))
  /\ exit_code' = exit_code
  /\ pc' = "prompt"
  /\ UNCHANGED <<env, serpapi_key, openai_api_key, raw_query, query,
                 num_articles, api_response, articles, idx,
                 successful_articles, ret, last_page, prompt, llm_result,
                 gpt_response, search_calls, extract_calls, llm_calls,
                 succ_idx>>

Report ==
  /\ pc = "report"
  /\ output' = Append(output, ReportLine(successful_articles))
  /\ IF successful_articles = <<>>
       THEN exit_code' = 1 /\ pc' = "done"
       ELSE exit_code' = exit_code /\ pc' = "prompt"
  /\ UNCHANGED <<env, serpapi_key, openai_api_key, raw_query, query,
                 num_articles, api_response, articles, idx,
                 successful_articles, ret, last_page, prompt, llm_result,
                 gpt_response,
                 search_calls, extract_calls, llm_calls, succ_idx>>

(* ----------------------------- prepare_prompt -------------------------- *)
Instruction ==
  "Please provide your analysis based on the above articles. Focus on the potential reasons behind a recent change in stock price."

PromptHeader(n) == <<"Here are ", ToString(n), " news articles:\n\n">>

\* the block numbered from 0
PromptBlock_m(i, article) ==
  (<<"Article ", ToString(i - 1), ":\n",
     "Title: ", Fmt(article.title), "\n",
     "Content: ">> \o article.full_text) \o <<"\n\n">>

\* the three lines appended for the article enumerated as i
PromptBlock(i, article) ==
  (<<"Article ", ToString(i), ":\n",
     "Title: ", Fmt(article.title), "\n",
     "Content: ">> \o article.full_text) \o <<"\n\n">>

\* the blocks of arts[1..k], enumerate(articles, start=1)
RECURSIVE PromptBlocks(_, _)
PromptBlocks(arts, k) ==
  IF k = 0 THEN <<>>
  ELSE PromptBlocks(arts, k - 1) \o PromptBlock(k, arts[k])

prepare_prompt(arts) ==
  (PromptHeader(Len(arts)) \o PromptBlocks(arts, Len(arts))) \o <<Instruction>>

PreparePrompt ==
  /\ pc = "prompt"
  /\ prompt' = prepare_prompt(successful_articles)
  /\ pc' = "send"
  /\ UNCHANGED <<exit_code, env, serpapi_key, openai_api_key, raw_query, query,
                 num_articles, api_response, articles, idx,
                 successful_articles, ret, last_page, llm_result, gpt_response,
                 output,
                 search_calls, extract_calls, llm_calls, succ_idx>>

(* ------------------------------ send_to_gpt ---------------------------- *)
\* the reply, or the exit with its messages
GptOutcome(r) ==
  IF r.kind = "attr"
    THEN [exit |-> TRUE, reply |-> <<>>,
          out |-> << <<"AttributeError: ", "<ae>">>,
                     <<"Please ensure the 'openai' package is up-to-date.">> >>]
  ELSE IF r.kind = "raise" \/ r.choices = <<>>
    THEN [exit |-> TRUE, reply |-> <<>>,
          out |-> << <<"An error occurred while communicating with OpenAI API: ",
                       "<e>">> >>]
  ELSE [exit |-> FALSE, reply |-> Strip(r.choices[1].message.content),
        out |-> <<>>]

SendToGpt ==
  /\ pc = "send"
  /\ \E r \in LLMOutcomes :
       LET o == GptOutcome(r)
           sending == <<"Sending data to GPT-4 for processing...\n">>
       IN /\ llm_result' = r
          /\ llm_calls' = llm_calls + 1
          /\ gpt_response' = o.reply
          /\ output' = Append(output, sending) \o o.out
          /\ IF o.exit
               THEN exit_code' = 1 /\ pc' = "done"
               ELSE exit_code' = exit_code /\ pc' = "display"
  /\ UNCHANGED <<env, serpapi_key, openai_api_key, raw_query, query,
                 num_articles, api_response, articles, idx,
                 successful_articles, ret, last_page, prompt, search_calls,
                 extract_calls, succ_idx>>

(* --------------------------- display_gpt_response ---------------------- *)
DisplayLines(response) ==
  << <<"\n--- GPT-4 Response ---\n">>, response,
     <<"\n-----------------------\n">> >>

\* the response is printed and main returns: the process ends with code 0
DisplayGptResponse ==
  /\ pc = "display"
  /\ output' = output \o DisplayLines(gpt_response)
  /\ exit_code' = 0
  /\ pc' = "done"
  /\ UNCHANGED <<env, serpapi_key, openai_api_key, raw_query, query,
                 num_articles, api_response, articles, idx,
                 successful_articles, ret, last_page, prompt, llm_result,
                 gpt_response,
                 search_calls, extract_calls, llm_calls, succ_idx>>

(* ------------------------------ specifications ------------------------- *)
DefaultNum == 10
NoRet == [success |-> FALSE, text |-> <<>>]

\* everything but pc, env and the inputs of the function under examination
Fresh ==
  /\ exit_code = Running
  /\ serpapi_key = "" /\ openai_api_key = ""
  /\ raw_query = <<>> /\ query = <<>>
  /\ api_response = NoCall
  /\ idx = 1
  /\ ret = NoRet
  /\ last_page = PageRaise
  /\ prompt = <<>>
  /\ llm_result = LLMNoCall
  /\ gpt_response = <<>>
  /\ output = <<>>
  /\ search_calls = 0 /\ extract_calls = <<>> /\ llm_calls = 0
  /\ succ_idx = <<>>

\* the whole program, from the start of main
Init ==
  /\ pc = "keys"
  /\ env \in [serp : EnvValues, openai : EnvValues]
  /\ num_articles = DefaultNum
  /\ articles = <<>>
  /\ successful_articles = <<>>
  /\ Fresh

Next ==
  \/ GetApiKeys
  \/ GetUserQuery
  \/ GetGoogleNewsArticles(MainResponses)
  \/ ExtractStep(MainPages)
  \/ LoopExit
  \/ Report
  \/ PreparePrompt
  \/ SendToGpt
  \/ DisplayGptResponse

Spec == Init /\ [][Next]_vars

\* get_google_news_articles alone, for every num_articles and response
InitSearch ==
  /\ pc = "search"
  /\ env = [serp |-> "envkey", openai |-> "envkey"]
  /\ num_articles \in 1..MaxNum
  /\ articles = <<>>
  /\ successful_articles = <<>>
  /\ Fresh

NextSearch == GetGoogleNewsArticles(SearchResponses)

SpecSearch == InitSearch /\ [][NextSearch]_vars

\* extract_article_text alone, on one candidate and every page
InitExtract ==
  /\ pc = "loop"
  /\ env = [serp |-> "envkey", openai |-> "envkey"]
  /\ num_articles = DefaultNum
  /\ \E r \in {R1, R2, R3} : articles = <<ArticleInfo(r)>>
  /\ successful_articles = <<>>
  /\ Fresh

NextExtract == ExtractStep(ExtractPages)

SpecExtract == InitExtract /\ [][NextExtract]_vars

\* prepare_prompt alone, on every list of extracted articles
ExtractedPool ==
  {WithFullText(ArticleInfo(r), t) :
     r \in {R1, R2, R3}, t \in {<<"a">>, <<"a", "\n", "a">>}}

RECURSIVE ExtractedLists(_)
ExtractedLists(n) ==
  IF n = 0 THEN {<<>>}
  ELSE LET S == ExtractedLists(n - 1)
       IN S \cup {Append(l, a) : l \in {x \in S : Len(x) = n - 1},
                                 a \in ExtractedPool}

InitPrompt ==
  /\ pc = "prompt"
  /\ env = [serp |-> "envkey", openai |-> "envkey"]
  /\ num_articles = DefaultNum
  /\ articles = <<>>
  /\ successful_articles \in ExtractedLists(MaxPromptArticles) \ {<<>>}
  /\ Fresh

NextPrompt == PreparePrompt

SpecPrompt == InitPrompt /\ [][NextPrompt]_vars

(* ------------------------------- claims -------------------------------- *)
Last(s) == s[Len(s)]

WhitespaceOnly(s) == \A i \in 1..Len(s) : s[i] \in Whitespace

\* the list of result records in the API's response, empty when there is none
ApiList ==
  IF api_response.kind = "dict" /\ "news_results" \in DOMAIN api_response.dict
    THEN api_response.dict["news_results"]
    ELSE <<>>

FatalEmptyQuery == WhitespaceOnly(raw_query)
FatalSearchError == api_response.kind = "raise"
FatalNoResults == api_response.kind = "dict" /\ Len(ApiList) = 0
FatalNoExtraction ==
  /\ Len(ApiList) >= 1
  /\ Len(extract_calls) = Len(ApiList)
  /\ successful_articles = <<>>
FatalLLM ==
  \/ llm_result.kind \in {"raise", "attr"}
  \/ llm_result.kind = "ok" /\ llm_result.choices = <<>>

ReplyDisplayed ==
  /\ llm_result.kind = "ok" /\ llm_result.choices /= <<>>
  /\ Len(output) >= 3
  /\ output[Len(output) - 2] = <<"\n--- GPT-4 Response ---\n">>
  /\ output[Len(output) - 1] = gpt_response
  /\ Last(output) = <<"\n-----------------------\n">>

\* C1: the process ends with exit code 1 exactly when a fatal condition
\* occurred (empty query, zero search results, search API error, zero
\* successful extractions, LLM API error) and with exit code 0 otherwise,
\* i.e. when the search returned a result, an extraction succeeded and the
\* LLM's reply was displayed; until it ends it has no exit code.
C1_ExitCode ==
  /\ pc /= "done" => exit_code = Running
  /\ pc = "done" =>
       /\ exit_code \in {0, 1}
       /\ exit_code = 1 <=>
            \/ FatalEmptyQuery
            \/ FatalSearchError
            \/ FatalNoResults
            \/ FatalNoExtraction
            \/ FatalLLM
       /\ exit_code = 0 <=>
            /\ Len(ApiList) >= 1
            /\ Len(successful_articles) >= 1
            /\ ReplyDisplayed

C1_Witness ==
  /\ pc = "done" /\ exit_code = 1
  /\ llm_result.kind = "attr"
  /\ Len(successful_articles) = 3

\* C2: when the query typed is empty or whitespace-only, the process ends
\* with exit code 1 and the search API, the article extractor and the LLM
\* API are never called.
C2_EmptyQuery ==
  (pc \notin {"keys", "query"} /\ WhitespaceOnly(raw_query)) =>
    /\ pc = "done" /\ exit_code = 1
    /\ search_calls = 0 /\ extract_calls = <<>> /\ llm_calls = 0

C2_Witness == pc = "done" /\ raw_query = <<" ", "\n">>

\* C3: when the search API returns zero results or the search call raises,
\* the process prints a message and ends with exit code 1; no extraction
\* and no LLM call happens, and the search was called once.
C3_SearchFatal ==
  (FatalSearchError \/ FatalNoResults) =>
    /\ pc = "done" /\ exit_code = 1
    /\ Last(output) \in
         {<<"No news articles found for the given query.">>,
          <<"An error occurred while fetching articles: ", "<e>">>}
    /\ FatalNoResults =>
         Last(output) = <<"No news articles found for the given query.">>
    /\ search_calls = 1 /\ extract_calls = <<>> /\ llm_calls = 0

C3_Witness == pc = "done" /\ api_response = ResultsDict(<<>>)

\* C4: the list of successful articles never holds more than 5 items, and
\* no step attempts an extraction once 5 successes are held.
C4_StopAtFive ==
  /\ [](Len(successful_articles) <= 5)
  /\ [][Len(successful_articles) >= 5 => extract_calls' = extract_calls]_vars

\* the loop was left with 5 successes and a candidate not examined
C4_Witness ==
  /\ pc = "report"
  /\ Len(successful_articles) = 5
  /\ Len(extract_calls) < Len(articles)

\* C5: for a response whose result list has length K, 1 <= K <= 10, the
\* search returns exactly K records in the API's order, record i taking
\* title, link, source, published_date and snippet from the i-th API
\* record's title, link, source, published and snippet (None when absent).
C5_FieldMapping ==
  (pc = "loop" /\ Len(ApiList) \in 1..10) =>
    /\ Len(articles) = Len(ApiList)
    /\ \A i \in 1..Len(ApiList) :
         /\ DOMAIN articles[i] =
              {"title", "link", "source", "published_date", "snippet"}
         /\ articles[i].title = Get(ApiList[i], "title")
         /\ articles[i].link = Get(ApiList[i], "link")
         /\ articles[i].source = Get(ApiList[i], "source")
         /\ articles[i].published_date = Get(ApiList[i], "published")
         /\ articles[i].snippet = Get(ApiList[i], "snippet")

C5_Witness == pc = "loop" /\ api_response = ResultsDict(<<R1, R3, R2>>)

\* C6: the search returns at most num_articles records, also when the API's
\* response lists more than num_articles results.
C6_AtMostNum == pc = "loop" => Len(articles) <= num_articles

\* the text with its leading and trailing whitespace removed, stated by
\* positions: the part between the first and the last non-whitespace one
IsTrimOf(r, t) ==
  \E i \in 1..Len(t), j \in 1..Len(t) :
    /\ i <= j
    /\ t[i] \notin Whitespace /\ t[j] \notin Whitespace
    /\ \A k \in 1..(i - 1) : t[k] \in Whitespace
    /\ \A k \in (j + 1)..Len(t) : t[k] \in Whitespace
    /\ r = SubSeq(t, i, j)

\* C7: extract_article_text does not raise (the loop goes on); it returns
\* success=true with the trimmed text exactly when download and parse
\* completed and the trimmed text is non-empty, and in every other case
\* success=false with the text "Content could not be retrieved.".
C7_Extractor ==
  extract_calls /= <<>> =>
    /\ pc = "loop" /\ exit_code = Running
    /\ idx = Len(extract_calls) + 1
    /\ ret.success <=>
         /\ last_page.kind = "page"
         /\ ~WhitespaceOnly(last_page.text)
    /\ ret.success => IsTrimOf(ret.text, last_page.text)
    /\ ~ret.success => ret.text = <<"Content could not be retrieved.">>

C7_Witness ==
  /\ extract_calls /= <<>>
  /\ ret.success
  /\ last_page.text = <<"\n", "a", " ">>

\* C8 as stated: after the loop, 1 to 4 successes proceed with a warning
\* that states the count, and 5 successes proceed with no message about
\* the retrieved count.
C8_SilentAtFive ==
  pc = "prompt" =>
    IF Len(successful_articles) < 5
      THEN Last(output) =
             <<"\nOnly ", ToString(Len(successful_articles)),
               " articles were successfully retrieved.\n">>
      ELSE \A i \in 1..Len(output) :
             /\ output[i] /= <<"\nSuccessfully retrieved 5 articles.\n">>
             /\ output[i][1] /= "\nOnly "

\* C8 amended: after the loop, 1 to 4 successes proceed to prompt building
\* with a warning that states the count, and exactly 5 successes proceed
\* after the line "Successfully retrieved 5 articles." is printed.
C8_ReportThenPrompt ==
  pc = "prompt" =>
    /\ Len(successful_articles) \in 1..5
    /\ exit_code = Running
    /\ Last(output) =
         IF Len(successful_articles) < 5
           THEN <<"\nOnly ", ToString(Len(successful_articles)),
                  " articles were successfully retrieved.\n">>
           ELSE <<"\nSuccessfully retrieved 5 articles.\n">>

C8_Witness == pc = "prompt" /\ Len(successful_articles) = 5

\* the number of prompt tokens before the block of article i
RECURSIVE BlockOffset(_, _)
BlockOffset(arts, i) ==
  IF i = 1 THEN 3
  ELSE BlockOffset(arts, i - 1) + 8 + Len(arts[i - 1].full_text)

\* C9: the prompt built from a list of 1 to 5 extracted articles starts
\* with a header whose count is the length of the list, then holds one
\* block per article in input order, block i numbered i and carrying the
\* title and the unmodified full text of the i-th article, and ends with
\* the fixed analysis instruction.
C9_PromptLayout ==
  pc = "send" =>
    LET arts == successful_articles
        n == Len(successful_articles)
    IN /\ SubSeq(prompt, 1, 3) =
            <<"Here are ", ToString(n), " news articles:\n\n">>
       /\ \A i \in 1..n :
            LET o == BlockOffset(arts, i)
                t == arts[i].full_text
            IN /\ SubSeq(prompt, o + 1, o + 3) =
                    <<"Article ", ToString(i), ":\n">>
               /\ SubSeq(prompt, o + 4, o + 6) =
                    <<"Title: ", Fmt(arts[i].title), "\n">>
               /\ prompt[o + 7] = "Content: "
               /\ SubSeq(prompt, o + 8, o + 7 + Len(t)) = t
               /\ prompt[o + 8 + Len(t)] = "\n\n"
       /\ Len(prompt) = BlockOffset(arts, n) + 8 + Len(arts[n].full_text) + 1
       /\ Last(prompt) = Instruction

C9_Witness ==
  /\ pc = "send"
  /\ Len(successful_articles) = 3
  /\ successful_articles[1].full_text /= successful_articles[2].full_text
  /\ successful_articles[1].title /= successful_articles[3].title

\* C10: the search API and the LLM API are each called at most once; the
\* candidates are attempted in search-result order, each at most once; the
\* successful articles are the search results at strictly increasing
\* positions, each with a non-empty full text, and they are the list the
\* prompt is built from.
C10_NoRetryInOrder ==
  /\ search_calls <= 1
  /\ llm_calls <= 1
  /\ \A j \in 1..Len(extract_calls) : extract_calls[j] = j
  /\ Len(extract_calls) <= Len(ApiList)
  /\ Len(succ_idx) = Len(successful_articles)
  /\ \A k \in 1..Len(succ_idx) :
       /\ succ_idx[k] \in 1..Len(extract_calls)
       /\ k > 1 => succ_idx[k - 1] < succ_idx[k]
       /\ successful_articles[k].full_text /= <<>>
       /\ \A f \in {"title", "link", "source", "snippet"} :
            successful_articles[k][f] = Get(ApiList[succ_idx[k]], f)
       /\ successful_articles[k].published_date =
            Get(ApiList[succ_idx[k]], "published")
  /\ pc \in {"send", "display"} => prompt = prepare_prompt(successful_articles)

\* a failed candidate was skipped and two later ones succeeded
C10_Witness ==
  /\ pc = "send"
  /\ Len(successful_articles) >= 2
  /\ succ_idx[1] > 1
  /\ Len(extract_calls) > Len(successful_articles) + 1

====
